---- MODULE Spec2Model ----
(***************************************************************************)
(* Billed generation pipeline of ai_photoshoot_bot.                        *)
(*                                                                         *)
(*   retry delay      src/src/services/photoshoot.py  _calculate_retry_delay*)
(*   ledger spend     src/src/db/repositories/users.py                     *)
(*                    consume_photoshoot_credit_or_balance                 *)
(*   promo redemption src/src/db/repositories/promo_codes.py               *)
(*                    redeem_promo_code_for_user                           *)
(*   orchestrator     src/src/services/photoshoot.py                       *)
(*                    generate_photoshoot_image, _make_api_request         *)
(*   bot pipeline     src/src/handlers/photoshoot.py  _run_generation      *)
(*                                                                         *)
(* Storage is PostgreSQL at READ COMMITTED (the migrations use NOW() and   *)
(* the session is a plain async_sessionmaker): a SELECT without            *)
(* with_for_update() takes no row lock, and the ORM writes back the value  *)
(* it computed in Python from the row it read.                             *)
(***************************************************************************)
EXTENDS Integers, Sequences, FiniteSets, TLC

(***************************************************************************)
(* Program constants                                                       *)
(***************************************************************************)
MAX_GENERATION_RETRIES == 5
RETRY_BASE_DELAY_SECONDS == 2
RETRY_MAX_DELAY_SECONDS == 120
RETRY_BACKOFF_MULTIPLIER == 2
APIYI_MAX_CONCURRENT == 3
\* src/constants.py is not among the source files; the price is the one
\* the specification's scenarios use.
PHOTOSHOOT_PRICE == 50

(***************************************************************************)
(* Bounds of the model                                                     *)
(***************************************************************************)
\* largest attempt number handed to _calculate_retry_delay
MaxAttemptArg == 8
\* random.uniform(0, b) is sampled at j/JitterSteps of b, j = 0..JitterSteps
JitterSteps == 4
\* credits an account starts with, at most
MaxCredits == 2
\* an account starts with at most MaxBalanceUnits prices of balance
MaxBalanceUnits == 2
\* settings.APIYI_MAX_CONCURRENT is drawn from 1..MaxConcurrentSetting where
\* the semaphore is checked
MaxConcurrentSetting == 2
\* settings.APIYI_MAX_RETRIES of the deployment that is checked (when the
\* setting is absent the code takes MAX_GENERATION_RETRIES)
APIYI_MAX_RETRIES == 3

\* telegram ids of the accounts, the callers of the ledger primitives, the
\* callers of the promo redemption and the bot requests
Ids == {1, 2}
Procs == {"p1", "p2"}
Redeemers == {"q1", "q2"}
Reqs == {"r1", "r2"}

Min(a, b) == IF a <= b THEN a ELSE b

VARIABLES
  \* ---- storage ----
  users,          \* table users: telegram_id -> [balance, photoshoot_credits]
  users0,         \* the table as it was in the initial state (history)
  \* ---- _calculate_retry_delay ----
  d_pc, d_attempt, d_error_type, d_base, d_delay,
  \* ---- callers of consume_photoshoot_credit_or_balance ----
  l_serial,       \* TRUE: the calls are issued one after the other
  l_pc,           \* per caller: "idle" | "selected" | "returned"
  l_tid,          \* per caller: telegram_id argument
  l_row,          \* per caller: the User object the session loaded
  l_before,       \* per caller: users when the call was issued (history)
  l_after,        \* per caller: users when the call returned (history)
  l_result,       \* per caller: the returned bool (or "none")
  \* ---- callers of change_user_credits / change_user_balance ----
  c_pc,           \* per caller: "idle" | "selected" | "returned"
  c_fn,           \* per caller: "credits" or "balance", the function called
  c_tid,          \* per caller: telegram_id argument
  c_delta,        \* per caller: delta argument
  c_row,          \* per caller: the User object the session loaded
  c_result,       \* per caller: "none" | "None" | "user"
  \* ---- promo codes and callers of redeem_promo_code_for_user ----
  promos,         \* table promo_codes: code -> [generations, is_active]
  redemptions,    \* table promo_code_redemptions: rows per <<code, telegram_id>>
  r_pc,           \* per caller: position in redeem_promo_code_for_user
  r_tid,          \* per caller: telegram_id argument
  r_code,         \* per caller: code argument, as typed
  r_newuser,      \* per caller: the transaction holds an uncommitted INSERT of the user
  r_grant,        \* per caller: grant_generations
  r_result,       \* per caller: first element of the returned tuple (or "none")
  r_overlap,      \* per caller: another call was in progress when this one began (history)
  pp,             \* per message: the locals of the bot handler promo_code_process
  \* ---- bot requests: _run_generation and generate_photoshoot_image ----
  settings,       \* the settings the process runs with
  api_sem,        \* free slots of _api_semaphore
  rl_sem,         \* free slots of _rate_limit_semaphore
  req,            \* per request: the locals of the two functions (see BotIdle)
  photoshoot_logs,         \* per request: the photoshoot_logs rows it wrote, in order
  fsm_data,       \* per user: is_generating of the FSM data of the chat
  web,            \* per web request: the locals of generate_photoshoot_from_upload
  hist            \* the provider calls, waits and error text of each request,
                  \* recorded when hist.on (history)

delayVars == <<d_pc, d_attempt, d_error_type, d_base, d_delay>>
adjustVars == <<c_pc, c_fn, c_tid, c_delta, c_row, c_result>>
ledgerVars == <<l_serial, l_pc, l_tid, l_row, l_before, l_after, l_result, adjustVars>>
promoVars == <<promos, redemptions, r_pc, r_tid, r_code, r_newuser, r_grant, r_result, r_overlap, pp>>
botVars == <<settings, api_sem, rl_sem, req, photoshoot_logs, fsm_data, web, hist>>
vars == <<users, users0, delayVars, ledgerVars, promoVars, botVars>>

(***************************************************************************)
(* _calculate_retry_delay (services/photoshoot.py:166-186).                *)
(* Delays are in milliseconds; error_type "none" is the default None.      *)
(***************************************************************************)
APIErrorType == {"rate_limit", "server_error", "timeout", "network", "auth",
                 "validation"}

\* the base delay without the clamp to RETRY_MAX_DELAY_SECONDS (a plausible slip)
base_delay_unclamped(attempt, error_type) ==
  IF error_type = "rate_limit"
    THEN Min(30 * attempt, 300) * 1000
    ELSE IF error_type = "server_error"
      THEN Min(RETRY_BASE_DELAY_SECONDS * (RETRY_BACKOFF_MULTIPLIER ^ (attempt - 1)), 60) * 1000
      ELSE RETRY_BASE_DELAY_SECONDS * (RETRY_BACKOFF_MULTIPLIER ^ (attempt - 1)) * 1000

\* lines 168-179: base_delay after min(base_delay, RETRY_MAX_DELAY_SECONDS)
base_delay(attempt, error_type) ==
  Min(base_delay_unclamped(attempt, error_type), RETRY_MAX_DELAY_SECONDS * 1000)

\* line 182: random.uniform(0, base_delay * 0.25), sampled
jitter(base, j) == ((base \div 4) * j) \div JitterSteps

\* lines 183-186
calculate_retry_delay(attempt, error_type, j) ==
  base_delay(attempt, error_type) + jitter(base_delay(attempt, error_type), j)

DelayInit ==
  /\ d_pc = "idle"
  /\ d_attempt = 1
  /\ d_error_type = "none"
  /\ d_base = 0
  /\ d_delay = 0

CalculateRetryDelay ==
  \E attempt \in 1..MaxAttemptArg, et \in APIErrorType \cup {"none"}, j \in 0..JitterSteps :
    /\ d_pc' = "returned"
    /\ d_attempt' = attempt
    /\ d_error_type' = et
    /\ d_base' = base_delay(attempt, et)
    /\ d_delay' = calculate_retry_delay(attempt, et, j)
    /\ UNCHANGED <<users, users0, ledgerVars, promoVars, botVars>>

(***************************************************************************)
(* Table users                                                             *)
(***************************************************************************)
UserRow(b, c) == [balance |-> b, photoshoot_credits |-> c]

\* the states an account can start in
StartRows ==
  { UserRow(b * PHOTOSHOOT_PRICE, c) : b \in 0..MaxBalanceUnits, c \in 0..MaxCredits }
  \cup { UserRow(PHOTOSHOOT_PRICE - 1, 0) }

\* tables with some of the accounts present
StartTables ==
  UNION { [S -> StartRows] : S \in SUBSET Ids }

Exists(t, tid) == tid \in DOMAIN t

(***************************************************************************)
(* consume_photoshoot_credit_or_balance (db/repositories/users.py:162-183) *)
(***************************************************************************)
\* lines 164-170: the row the session works on; a missing user is added to
\* the session with balance 0 and 0 credits and flushed, not committed
consume_select(t, tid) ==
  IF Exists(t, tid)
    THEN [fresh |-> FALSE, balance |-> t[tid].balance,
          photoshoot_credits |-> t[tid].photoshoot_credits]
    ELSE [fresh |-> TRUE, balance |-> 0, photoshoot_credits |-> 0]

\* a spend that needs strictly more balance than the price (a plausible slip)
consume_branch_strict(row, price_rub) ==
  IF row.photoshoot_credits > 0 THEN "credit"
  ELSE IF row.balance > price_rub THEN "balance"
  ELSE "refuse"

\* lines 172-183: which branch the loaded row takes
consume_branch(row, price_rub) ==
  IF row.photoshoot_credits > 0 THEN "credit"
  ELSE IF row.balance >= price_rub THEN "balance"
  ELSE "refuse"

\* lines 173-174, 178-179, 182: the table after commit or rollback.  The
\* unit of work UPDATEs only the attribute that was assigned, with the value
\* computed from the loaded row; a flushed new user is INSERTed by commit and
\* dropped by rollback.
consume_write(t, tid, row, price_rub) ==
  LET br == consume_branch(row, price_rub)
      cur == IF Exists(t, tid) THEN t[tid] ELSE UserRow(row.balance, row.photoshoot_credits)
      new == IF br = "credit"
               THEN [cur EXCEPT !.photoshoot_credits = row.photoshoot_credits - 1]
               ELSE [cur EXCEPT !.balance = row.balance - price_rub]
  IN IF br = "refuse" THEN t
     ELSE [x \in DOMAIN t \cup {tid} |-> IF x = tid THEN new ELSE t[x]]

(***************************************************************************)
(* change_user_credits and change_user_balance                             *)
(* (db/repositories/users.py:244-275)                                      *)
(***************************************************************************)
Adjusters == {"a1", "a2"}
\* deltas as the callers pass them: one credit more or less
\* (handlers/admin.py:322, 349), 100 rub less (handlers/admin.py:402), a
\* top-up of one price (handlers/balance.py:184); api/main.py:592, 621 pass
\* any integer of the request body
Deltas == {1, -1, PHOTOSHOOT_PRICE, -100}

\* an adjustment without the clamp (a plausible slip)
change_new_value_unclamped(old, delta) == old + delta

\* lines 250-252 and 267-269
change_new_value(old, delta) == IF old + delta < 0 THEN 0 ELSE old + delta

\* the attribute the function assigns
change_field(fn, row) == IF fn = "credits" THEN row.photoshoot_credits ELSE row.balance

\* lines 254-256 and 271-273: the table after the commit.  The unit of work
\* UPDATEs the assigned attribute with the value computed from the loaded
\* row, and emits nothing when that value equals the loaded one.
change_write(t, fn, tid, row, delta) ==
  LET new == change_new_value(change_field(fn, row), delta) IN
    IF new = change_field(fn, row) \/ ~Exists(t, tid) THEN t
    ELSE IF fn = "credits"
      THEN [t EXCEPT ![tid].photoshoot_credits = new]
      ELSE [t EXCEPT ![tid].balance = new]

AdjustInit ==
  /\ c_pc = [p \in Adjusters |-> "idle"]
  /\ c_fn = [p \in Adjusters |-> "balance"]
  /\ c_tid = [p \in Adjusters |-> 1]
  /\ c_delta = [p \in Adjusters |-> 1]
  /\ c_row = [p \in Adjusters |-> UserRow(0, 0)]
  /\ c_result = [p \in Adjusters |-> "none"]

\* the call up to the SELECT (lines 245-249, 262-266); a missing user
\* returns None
ChangeSelect(p) ==
  \E fn \in {"credits", "balance"}, tid \in Ids, delta \in Deltas :
    /\ c_pc[p] = "idle"
    /\ c_fn' = [c_fn EXCEPT ![p] = fn]
    /\ c_tid' = [c_tid EXCEPT ![p] = tid]
    /\ c_delta' = [c_delta EXCEPT ![p] = delta]
    /\ IF Exists(users, tid)
         THEN /\ c_pc' = [c_pc EXCEPT ![p] = "selected"]
              /\ c_row' = [c_row EXCEPT ![p] = users[tid]]
              /\ UNCHANGED c_result
         ELSE /\ c_pc' = [c_pc EXCEPT ![p] = "returned"]
              /\ c_result' = [c_result EXCEPT ![p] = "None"]
              /\ UNCHANGED c_row
    /\ UNCHANGED <<users, users0, l_serial, l_pc, l_tid, l_row, l_before, l_after,
                   l_result, delayVars, promoVars, botVars>>

\* the rest of the call: the clamp, the assignment, commit, refresh, return
\* (lines 250-258, 267-275)
ChangeFinish(p) ==
  /\ c_pc[p] = "selected"
  /\ users' = change_write(users, c_fn[p], c_tid[p], c_row[p], c_delta[p])
  /\ c_result' = [c_result EXCEPT ![p] = "user"]
  /\ c_pc' = [c_pc EXCEPT ![p] = "returned"]
  /\ UNCHANGED <<users0, l_serial, l_pc, l_tid, l_row, l_before, l_after, l_result,
                 c_fn, c_tid, c_delta, c_row, delayVars, promoVars, botVars>>

LedgerInit ==
  /\ l_pc = [p \in Procs |-> "idle"]
  /\ l_tid = [p \in Procs |-> 1]
  /\ l_row = [p \in Procs |-> consume_select(users, 1)]
  /\ l_before = [p \in Procs |-> users]
  /\ l_after = [p \in Procs |-> users]
  /\ l_result = [p \in Procs |-> "none"]
  /\ AdjustInit

\* the call up to the SELECT (lines 163-170)
ConsumeSelect(p) ==
  \E tid \in Ids :
    /\ l_pc[p] = "idle"
    /\ l_serial => \A q \in Procs : l_pc[q] # "selected"
    /\ l_pc' = [l_pc EXCEPT ![p] = "selected"]
    /\ l_tid' = [l_tid EXCEPT ![p] = tid]
    /\ l_row' = [l_row EXCEPT ![p] = consume_select(users, tid)]
    /\ l_before' = [l_before EXCEPT ![p] = users]
    /\ UNCHANGED <<users, users0, l_serial, l_after, l_result, adjustVars,
                   delayVars, promoVars, botVars>>

\* the rest of the call: the branch, commit or rollback, return (lines 172-183)
ConsumeFinish(p) ==
  /\ l_pc[p] = "selected"
  /\ users' = consume_write(users, l_tid[p], l_row[p], PHOTOSHOOT_PRICE)
  /\ l_result' = [l_result EXCEPT
                    ![p] = consume_branch(l_row[p], PHOTOSHOOT_PRICE) # "refuse"]
  /\ l_after' = [l_after EXCEPT ![p] = users']
  /\ l_pc' = [l_pc EXCEPT ![p] = "returned"]
  /\ UNCHANGED <<users0, l_serial, l_tid, l_row, l_before, adjustVars,
                 delayVars, promoVars, botVars>>

(***************************************************************************)
(* redeem_promo_code_for_user (db/repositories/promo_codes.py:216-294)     *)
(***************************************************************************)
PromoCodes == {"A", "B", "X"}
\* what a user may type; "" and " " are empty after normalisation
TypedCodes == {"A", "a", " a ", "B", "X", "ZZ", " ", ""}

\* _normalize_code (lines 13-19): strip, then upper case
normalize_code(code) ==
  CASE code \in {"A", "a", " a "} -> "A"
    [] code = "B" -> "B"
    [] code = "X" -> "X"
    [] code = "ZZ" -> "ZZ"
    [] OTHER -> ""

PromoRow(g, a) == [generations |-> g, is_active |-> a]

\* lines 241-249: the WHERE clause of the locking SELECT
promo_usable(t, code) ==
  /\ code \in DOMAIN t
  /\ t[code].is_active
  /\ t[code].generations > 0

\* a table without the unique constraint (a plausible slip)
unique_violation_absent(rows, code, tid) == FALSE

\* uq_promo_redemption, UNIQUE(promo_code_id, telegram_id)
\* (alembic/versions/90eb263fb3fe_add_promo_code_redemptions.py:46-50)
unique_violation(rows, code, tid) == rows[<<code, tid>>] > 0

\* a redemption without the except clause (a plausible slip)
redeem_except_absent(exc) == "raised"

\* lines 291-294: what the call ends in when the transaction raised exc
redeem_except(exc) == IF exc = "IntegrityError" THEN "already_used" ELSE "raised"

InFlight(q) == r_pc[q] \notin {"idle", "returned"}

\* row locks a transaction holds until it ends
HoldsPromoLock(q, code) ==
  /\ r_pc[q] \in {"promo_locked", "user_missing", "user_ready", "flushed"}
  /\ normalize_code(r_code[q]) = code
HoldsUserLock(q, tid) ==
  /\ r_pc[q] \in {"user_ready", "flushed"}
  /\ r_tid[q] = tid

\* the messages promo_code_process handles
Appliers == {"h1", "h2"}

\* the locals of promo_code_process (handlers/promo_codes.py:99-170);
\* burned, credited and answer are history
ApplyIdle ==
  [pc |-> "idle", code |-> "", tg_id |-> 0, grant |-> 0,
   row |-> UserRow(0, 0),   \* the User object change_user_credits loaded
   burned |-> FALSE,        \* the handler committed generations = 0, is_active = False
   credited |-> FALSE,      \* change_user_credits committed the credits
   answer |-> "none"]       \* the message the user got

PromoInit ==
  /\ promos = [c \in PromoCodes |->
                 CASE c = "A" -> PromoRow(1, TRUE)
                   [] c = "B" -> PromoRow(2, TRUE)
                   [] OTHER -> PromoRow(1, FALSE)]
  /\ redemptions = [x \in PromoCodes \X Ids |-> 0]
  /\ r_pc = [q \in Redeemers |-> "idle"]
  /\ r_tid = [q \in Redeemers |-> 1]
  /\ r_code = [q \in Redeemers |-> ""]
  /\ r_newuser = [q \in Redeemers |-> FALSE]
  /\ r_grant = [q \in Redeemers |-> 0]
  /\ r_result = [q \in Redeemers |-> "none"]
  /\ r_overlap = [q \in Redeemers |-> FALSE]
  /\ pp = [h \in Appliers |-> ApplyIdle]

\* lines 225-230: the arguments are checked, the session is opened
RedeemCall(q) ==
  \E tid \in Ids \cup {0}, code \in TypedCodes :
    /\ r_pc[q] = "idle"
    /\ r_tid' = [r_tid EXCEPT ![q] = tid]
    /\ r_code' = [r_code EXCEPT ![q] = code]
    /\ r_overlap' = [r_overlap EXCEPT ![q] = \E o \in Redeemers \ {q} : InFlight(o)]
    /\ IF normalize_code(code) = "" \/ tid <= 0
         THEN /\ r_pc' = [r_pc EXCEPT ![q] = "returned"]
              /\ r_result' = [r_result EXCEPT ![q] = "invalid"]
         ELSE /\ r_pc' = [r_pc EXCEPT ![q] = "begun"]
              /\ UNCHANGED r_result
    /\ UNCHANGED <<users, users0, promos, redemptions, r_newuser, r_grant,
                   pp, delayVars, ledgerVars, botVars>>

\* lines 239-256: SELECT ... FOR UPDATE on the promo code; it waits while
\* another transaction holds the row
RedeemSelectPromo(q) ==
  LET code == normalize_code(r_code[q]) IN
    /\ r_pc[q] = "begun"
    /\ IF promo_usable(promos, code)
         THEN /\ \A o \in Redeemers \ {q} : ~HoldsPromoLock(o, code)
              /\ r_pc' = [r_pc EXCEPT ![q] = "promo_locked"]
              /\ r_grant' = [r_grant EXCEPT ![q] = promos[code].generations]
              /\ UNCHANGED r_result
         ELSE /\ r_pc' = [r_pc EXCEPT ![q] = "returned"]
              /\ r_result' = [r_result EXCEPT ![q] = "invalid"]
              /\ UNCHANGED r_grant
    /\ UNCHANGED <<users, users0, promos, redemptions, r_tid, r_code, r_newuser,
                   r_overlap, pp, delayVars, ledgerVars, botVars>>

\* lines 259-264: SELECT ... FOR UPDATE on the user; it waits while another
\* transaction holds the row, and sees no uncommitted row
RedeemSelectUser(q) ==
  /\ r_pc[q] = "promo_locked"
  /\ IF Exists(users, r_tid[q])
       THEN /\ \A o \in Redeemers \ {q} : ~HoldsUserLock(o, r_tid[q])
            /\ r_pc' = [r_pc EXCEPT ![q] = "user_ready"]
       ELSE r_pc' = [r_pc EXCEPT ![q] = "user_missing"]
  /\ UNCHANGED <<users, users0, promos, redemptions, r_tid, r_code, r_newuser,
                 r_grant, r_result, r_overlap, pp, delayVars, ledgerVars, botVars>>

\* lines 265-268: INSERT of the missing user, flushed.  users.telegram_id is
\* unique (db/models.py:27): the INSERT waits for a transaction that has
\* inserted the same id, and raises IntegrityError when the id is committed;
\* lines 291-294 then roll back and return "already_used".
RedeemInsertUser(q) ==
  /\ r_pc[q] = "user_missing"
  /\ \A o \in Redeemers \ {q} : ~(HoldsUserLock(o, r_tid[q]) /\ r_newuser[o])
  /\ IF Exists(users, r_tid[q])
       THEN /\ r_pc' = [r_pc EXCEPT ![q] = "returned"]
            /\ r_result' = [r_result EXCEPT ![q] = redeem_except("IntegrityError")]
            /\ UNCHANGED r_newuser
       ELSE /\ r_pc' = [r_pc EXCEPT ![q] = "user_ready"]
            /\ r_newuser' = [r_newuser EXCEPT ![q] = TRUE]
            /\ UNCHANGED r_result
  /\ UNCHANGED <<users, users0, promos, redemptions, r_tid, r_code, r_grant,
                 r_overlap, pp, delayVars, ledgerVars, botVars>>

\* lines 271-283: the redemption row is added and flushed by the UPDATE of
\* the balance; a duplicate raises IntegrityError, and lines 291-294 roll
\* the transaction back (the flushed user with it) and return "already_used"
RedeemInsertRedemption(q) ==
  LET code == normalize_code(r_code[q]) IN
    /\ r_pc[q] = "user_ready"
    /\ \A o \in Redeemers \ {q} :
         ~(r_pc[o] = "flushed" /\ normalize_code(r_code[o]) = code /\ r_tid[o] = r_tid[q])
    /\ IF unique_violation(redemptions, code, r_tid[q])
         THEN /\ r_pc' = [r_pc EXCEPT ![q] = "returned"]
              /\ r_result' = [r_result EXCEPT ![q] = redeem_except("IntegrityError")]
              /\ r_newuser' = [r_newuser EXCEPT ![q] = FALSE]
         ELSE /\ r_pc' = [r_pc EXCEPT ![q] = "flushed"]
              /\ UNCHANGED <<r_result, r_newuser>>
    /\ UNCHANGED <<users, users0, promos, redemptions, r_tid, r_code, r_grant,
                   r_overlap, pp, delayVars, ledgerVars, botVars>>

\* the end of session.begin() (line 239) commits; lines 286-289 return "ok"
RedeemCommit(q) ==
  LET code == normalize_code(r_code[q])
      tid == r_tid[q]
      credit_rub == PHOTOSHOOT_PRICE * r_grant[q]
      cur == IF Exists(users, tid) THEN users[tid] ELSE UserRow(0, 0)
  IN
    /\ r_pc[q] = "flushed"
    /\ users' = [x \in DOMAIN users \cup {tid} |->
                   IF x = tid THEN [cur EXCEPT !.balance = cur.balance + credit_rub]
                   ELSE users[x]]
    /\ redemptions' = [redemptions EXCEPT ![<<code, tid>>] = @ + 1]
    /\ r_pc' = [r_pc EXCEPT ![q] = "returned"]
    /\ r_result' = [r_result EXCEPT ![q] = "ok"]
    /\ r_newuser' = [r_newuser EXCEPT ![q] = FALSE]
    /\ UNCHANGED <<users0, promos, r_tid, r_code, r_grant, r_overlap,
                   pp, delayVars, ledgerVars, botVars>>

(***************************************************************************)
(* promo_code_process and _add_user_credits                                *)
(* (handlers/promo_codes.py:48-73, 99-170)                                 *)
(***************************************************************************)
\* lines 146-147: promo.generations = 0; promo.is_active = False
apply_burn(row) == PromoRow(0, FALSE)

\* lines 101-110: a cancel word or an empty code ends the handler;
\* message.from_user may be absent (tg_id = 0, line 152)
ApplyMessage(h) ==
  \E raw \in TypedCodes \cup {"cancel"}, tg_id \in Ids \cup {0} :
    /\ pp[h].pc = "idle"
    /\ pp' = [pp EXCEPT ![h] =
                IF raw = "cancel"
                  THEN [@ EXCEPT !.pc = "done", !.answer = "cancelled", !.tg_id = tg_id]
                ELSE IF normalize_code(raw) = ""
                  THEN [@ EXCEPT !.pc = "done", !.answer = "empty", !.tg_id = tg_id]
                  ELSE [@ EXCEPT !.pc = "begun", !.code = normalize_code(raw),
                                 !.tg_id = tg_id]]
    /\ UNCHANGED <<users, users0, promos, redemptions, r_pc, r_tid, r_code, r_newuser,
                   r_grant, r_result, r_overlap, delayVars, ledgerVars, botVars>>

\* lines 121-149: SELECT ... FOR UPDATE of the usable code (it waits while
\* another transaction holds the row), the burn and the commit, in one
\* transaction; a database error raises into the except branch (165-170)
ApplyBurn(h) ==
  \E db_ok \in BOOLEAN :
    LET me == pp[h] IN
      /\ me.pc = "begun"
      /\ \A o \in Redeemers : ~HoldsPromoLock(o, me.code)
      /\ IF ~db_ok
           THEN /\ pp' = [pp EXCEPT ![h] = [@ EXCEPT !.pc = "done", !.answer = "error"]]
                /\ UNCHANGED promos
         ELSE IF ~promo_usable(promos, me.code)
           THEN /\ pp' = [pp EXCEPT ![h] = [@ EXCEPT !.pc = "done", !.answer = "not_found"]]
                /\ UNCHANGED promos
           ELSE /\ pp' = [pp EXCEPT ![h] =
                           [@ EXCEPT !.pc = "burned", !.burned = TRUE,
                                     !.grant = promos[me.code].generations]]
                /\ promos' = [promos EXCEPT ![me.code] = apply_burn(@)]
      /\ UNCHANGED <<users, users0, redemptions, r_pc, r_tid, r_code, r_newuser,
                     r_grant, r_result, r_overlap, delayVars, ledgerVars, botVars>>

\* lines 152-157 with lines 54-60 and users.py:245-249: without a user id
\* the handler returns; otherwise change_user_credits runs up to its SELECT
\* and returns None for a missing user, which the handler does not look at
ApplyCreditSelect(h) ==
  \E db_ok \in BOOLEAN :
    LET me == pp[h] IN
      /\ me.pc = "burned"
      /\ pp' = [pp EXCEPT ![h] =
                  IF me.tg_id <= 0
                    THEN [@ EXCEPT !.pc = "done", !.answer = "no_user"]
                  ELSE IF ~db_ok
                    THEN [@ EXCEPT !.pc = "done", !.answer = "error"]
                  ELSE IF ~Exists(users, me.tg_id)
                    THEN [@ EXCEPT !.pc = "done", !.answer = "applied"]
                    ELSE [@ EXCEPT !.pc = "credit_selected", !.row = users[me.tg_id]]]
      /\ UNCHANGED <<users, users0, promos, redemptions, r_pc, r_tid, r_code, r_newuser,
                     r_grant, r_result, r_overlap, delayVars, ledgerVars, botVars>>

\* users.py:250-258 and lines 159-163: the credits are stored and committed
\* (the commit may raise into the except branch), the user is told
ApplyCreditFinish(h) ==
  \E db_ok \in BOOLEAN :
    LET me == pp[h] IN
      /\ me.pc = "credit_selected"
      /\ users' = IF db_ok
                     THEN change_write(users, "credits", me.tg_id, me.row, me.grant)
                     ELSE users
      /\ pp' = [pp EXCEPT ![h] =
                  [@ EXCEPT !.pc = "done", !.credited = db_ok,
                            !.answer = IF db_ok THEN "applied" ELSE "error"]]
      /\ UNCHANGED <<users0, promos, redemptions, r_pc, r_tid, r_code, r_newuser,
                     r_grant, r_result, r_overlap, delayVars, ledgerVars, botVars>>

(***************************************************************************)
(* generate_photoshoot_image and _make_api_request                         *)
(* (services/photoshoot.py:230-313, 316-595)                               *)
(***************************************************************************)
\* what one provider call can end in: an HTTP status, a 200 whose body is
\* not JSON, a 200 whose JSON holds no image, a timeout, an aiohttp
\* ClientError, or an exception of another class
ProviderOutcomes ==
  {"200", "200_bad_json", "200_no_image", "429", "500", "400", "401", "403",
   "404", "418", "timeout", "client_error", "unexpected"}

\* lines 254-313: the text of the RuntimeError _make_api_request raises, in
\* lower case as the caller compares it, one word per element
request_error(o) ==
  CASE o = "200_bad_json" -> <<"nekorrektnyi", "otvet", "ot", "servera", "api">>
    [] o = "429"          -> <<"rate", "limit", "probuem", "snova">>
    [] o = "500"          -> <<"servernaya", "oshibka", "500">>
    [] o = "401"          -> <<"oshibka", "avtorizatsii", "api", "proverte", "klyuch">>
    [] o = "403"          -> <<"dostup", "zapreshchen", "proverte", "limity", "api">>
    [] o = "400"          -> <<"nekorrektnyi", "zapros", "k", "api">>
    [] o = "404"          -> <<"oshibka", "klienta", "404">>
    [] o = "418"          -> <<"neizvestnaya", "oshibka", "api", "418">>
    [] o = "timeout"      -> <<"taimaut", "zaprosa">>
    [] o = "client_error" -> <<"setevaya", "oshibka">>

\* `marker in error_msg.lower()`
Contains(msg, marker) ==
  \E i \in 1..(Len(msg) - Len(marker) + 1) :
    SubSeq(msg, i, i + Len(marker) - 1) = marker

\* a retry loop without the check for fatal errors (a plausible slip)
is_fatal_never(msg) == FALSE

\* line 468: the errors that are not retried
is_fatal(msg) ==
  \E marker \in {<<"avtorizatsii">>, <<"dostup", "zapreshchen">>,
                 <<"nekorrektnyi", "zapros">>} : Contains(msg, marker)

\* lines 481-485: the error type the delay is computed for
retry_error_type(msg) ==
  IF Contains(msg, <<"rate">>) THEN "rate_limit"
  ELSE IF Contains(msg, <<"taimaut">>) \/ Contains(msg, <<"timeout">>) THEN "timeout"
  ELSE "server_error"

\* line 355: config.max_retries
max_retries == APIYI_MAX_RETRIES

\* a degradation that drops to the lowest size at once (a plausible slip)
degrade_to_lowest(attempt, size) == IF attempt > 1 THEN "1K" ELSE size

\* lines 427-435: the size the attempt is made with
degrade(attempt, size) ==
  IF attempt > 1 /\ size # "1K"
    THEN (IF size = "4K" THEN "2K" ELSE "1K")
    ELSE size

\* a loop that gives up at the first error (a plausible slip)
after_attempt_no_retry(o, attempt) == IF o = "200" THEN "ok" ELSE "raise"

\* lines 455-501 and 504-551: where the call goes after the outcome of an
\* attempt: "ok" returns the file, "raise" leaves with an exception, "sleep"
\* waits and runs the next attempt
after_attempt(o, attempt) ==
  IF o = "200" THEN "ok"
  ELSE IF o = "200_no_image" THEN "raise"
  ELSE IF o = "unexpected"
    THEN (IF attempt = max_retries THEN "raise" ELSE "sleep")
  ELSE IF is_fatal(request_error(o)) THEN "raise"
  ELSE IF attempt = max_retries THEN "raise"
  ELSE "sleep"

\* the error type of the sleep after the outcome
sleep_error_type(o) ==
  IF o = "unexpected" THEN "server_error" ELSE retry_error_type(request_error(o))

\* the Retry-After header of a 429: absent, a number of seconds, an HTTP date
RetryAfterHeaders == {"absent", "1", "http_date"}

\* lines 264-268, in milliseconds: resp.headers.get("Retry-After", "60") read
\* as a float, or the computed delay when float() raises ValueError
retry_after_wait(header, attempt, j) ==
  CASE header = "absent" -> 60 * 1000
    [] header = "1" -> 1 * 1000
    [] OTHER -> calculate_retry_delay(attempt, "rate_limit", j)

\* the text of the exception that leaves generate_photoshoot_image after
\* outcome o of the last call: `raise e` (line 470), the exhaustion errors
\* (lines 474-477, 496-498), the error of the extraction (line 551)
raise_message(o) ==
  IF o = "200_no_image"
    THEN <<"oshibka", "obrabotki", "sgenerirovannogo", "izobrazheniya">>
  ELSE IF o = "unexpected"
    THEN <<"neozhidannaya", "oshibka", "generatsii", "poprobuite", "pozzhe">>
  ELSE IF is_fatal(request_error(o)) THEN request_error(o)
  ELSE <<"ne", "udalos", "sgenerirovat", "izobrazhenie", "posle",
         ToString(max_retries), "popytok",
         "poprobuite", "pozzhe", "ili", "vyberite", "drugoi", "stil">>

\* the history of one request
HistIdle ==
  [outcomes |-> <<>>,     \* the outcome of each provider call, in order
   retry_after |-> "none",  \* the Retry-After header of the last call if a 429
   inner |-> 0,           \* wait_time of the 429 being handled (line 266 or 268), ms
   gap |-> 0,             \* time slept since the last provider call, ms
   exc |-> <<>>,          \* text of the exception generate_photoshoot_image raised
   error_message |-> <<>>]  \* error_message of the failed record

\* an input that only the history depends on is drawn when it is recorded
HistInput(S, d) == IF hist.on THEN S ELSE {d}

\* the locals of one request.  pc is the position in _run_generation and in
\* the call of generate_photoshoot_image it makes; calls, slept,
\* first_terminal, gave_up_early, generated, prechecked, charged, photo_sent, doc_sent and raised are
\* history.
BotIdle ==
  [pc |-> "idle",
   telegram_id |-> 1, user_is_admin |-> FALSE, log_cost_rub |-> 0,
   update_avatar_after_success |-> FALSE,  \* set where line 915 reads it
   attempt |-> 0, image_size |-> "2K",
   calls |-> 0,               \* provider calls made
   slept |-> FALSE,           \* the request has waited in asyncio.sleep
   first_terminal |-> FALSE,  \* the first provider call was answered 400, 401 or 403
   gave_up_early |-> FALSE,   \* a transient error ended the loop while attempts remained
   generated |-> "none",      \* "ok": a file was returned; "failed": the call raised
   prechecked |-> "none",     \* the callers' check: "raised", or the branch its call took
   row |-> [fresh |-> FALSE, balance |-> 0, photoshoot_credits |-> 0],
   charged |-> "none",        \* "credit" | "balance": debited; "refused": not charged
   photo_sent |-> FALSE, doc_sent |-> FALSE,
   raised |-> FALSE]          \* an exception left _run_generation

\* services/photoshoot.py:69, 356: the settings when none is set
DefaultSettings ==
  [APIYI_IMAGE_SIZE |-> "2K", APIYI_MAX_CONCURRENT |-> APIYI_MAX_CONCURRENT]

\* the requests to POST /api/photoshoots/generate
WebReqs == {"w1"}

\* the locals of generate_photoshoot_from_upload (api/main.py:432-509);
\* charged and generated are history
WebIdle ==
  [pc |-> "idle", telegram_id |-> 1, is_admin |-> FALSE,
   row |-> [fresh |-> FALSE, balance |-> 0, photoshoot_credits |-> 0],
   cost_rub |-> 0,
   charged |-> "none",     \* "credit" | "balance": debited; "refused": not charged
   generated |-> "none",   \* "ok": the image bytes were returned; "failed": the call raised
   logs |-> <<>>,          \* the photoshoot_logs rows written
   status |-> 0]           \* the HTTP status of the response

\* services/photoshoot.py:65-79: the semaphores are created on first use,
\* the first with settings.APIYI_MAX_CONCURRENT slots, the second with one
BotInitTraced(cfg, on) ==
  /\ settings = cfg
  /\ api_sem = cfg.APIYI_MAX_CONCURRENT
  /\ rl_sem = 1
  /\ req = [r \in Reqs |-> BotIdle]
  /\ photoshoot_logs = [r \in Reqs |-> <<>>]
  /\ hist = [on |-> on, of |-> [r \in Reqs |-> HistIdle]]
  /\ web = [w \in WebReqs |-> WebIdle]
  /\ fsm_data = [tid \in Ids |-> [is_generating |-> FALSE]]

BotInitWith(cfg) == BotInitTraced(cfg, FALSE)

BotInit == BotInitWith(DefaultSettings)

\* handlers/photoshoot.py:1091, 1174: what the callers pass as log_cost_rub
caller_log_cost_rub(user_is_admin) == IF user_is_admin THEN 0 ELSE PHOTOSHOOT_PRICE

\* handlers/photoshoot.py:845: the settlement charge is made
needs_charge(user_is_admin, log_cost_rub) == (~user_is_admin) /\ log_cost_rub > 0

\* _run_generation up to the retry loop of generate_photoshoot_image
\* (handlers/photoshoot.py:783-840, services/photoshoot.py:341-419): the
\* progress message, the admin log, the download of the input photos.
run_generation_entry(me, tid, user_is_admin, downloaded) ==
  [me EXCEPT !.pc = IF downloaded THEN "acquire" ELSE "except",
             !.generated = IF downloaded THEN "none" ELSE "failed",
             !.telegram_id = tid,
             !.user_is_admin = user_is_admin,
             !.log_cost_rub = caller_log_cost_rub(user_is_admin),
             !.image_size = settings.APIYI_IMAGE_SIZE]

\* _run_generation called with any arguments the callers can pass
RunGeneration(r) ==
  \E tid \in Ids, user_is_admin \in BOOLEAN, downloaded \in BOOLEAN :
    /\ req[r].pc = "idle"
    /\ req' = [req EXCEPT ![r] = run_generation_entry(@, tid, user_is_admin, downloaded)]
    /\ UNCHANGED <<users, users0, delayVars, ledgerVars, promoVars, settings, fsm_data, web, hist, api_sem, rl_sem, photoshoot_logs>>

\* a semaphore that lets everyone in (a plausible slip)
can_acquire_always(sem) == TRUE

\* asyncio.Semaphore.acquire returns when a slot is free
can_acquire(sem) == sem > 0

\* a slot given back only when the loop ends in success (a plausible slip)
api_sem_after_ok_only(next, sem) == IF next = "ok" THEN sem + 1 ELSE sem

\* services/photoshoot.py:422: the `async with` gives the slot back when
\* the block is left, by the break or by an exception
api_sem_after(next, sem) == IF next = "sleep" THEN sem ELSE sem + 1

\* the provider outcomes the loop is to retry: rate limit, 5xx, timeout,
\* network error
TransientOutcomes == {"429", "500", "timeout", "client_error"}

\* services/photoshoot.py:422: async with _get_api_semaphore()
GenAcquire(r) ==
  /\ req[r].pc = "acquire"
  /\ can_acquire(api_sem)
  /\ api_sem' = api_sem - 1
  /\ req' = [req EXCEPT ![r] = [@ EXCEPT !.pc = "attempt", !.attempt = 1]]
  /\ UNCHANGED <<users, users0, delayVars, ledgerVars, promoVars, settings, fsm_data, web, hist, rl_sem, photoshoot_logs>>

\* a pipeline that settles whether or not a file was generated (a plausible
\* slip)
after_generation_charges(outcome, user_is_admin, log_cost_rub) ==
  IF needs_charge(user_is_admin, log_cost_rub) THEN "charge"
  ELSE IF outcome = "raise" THEN "except"
  ELSE "log_success"

\* handlers/photoshoot.py:835-845, 922: where _run_generation goes when
\* generate_photoshoot_image returns or raises
after_generation(outcome, user_is_admin, log_cost_rub) ==
  IF outcome = "raise" THEN "except"
  ELSE IF needs_charge(user_is_admin, log_cost_rub) THEN "charge"
  ELSE "log_success"

\* one pass of the retry loop (services/photoshoot.py:423-501), and for a
\* 200 the rest of the function (504-595), which does not await: the provider
\* call and what its outcome leads to.  A 429 first waits inside
\* _make_api_request.
GenAttempt(r) ==
  \E o \in ProviderOutcomes, header \in HistInput(RetryAfterHeaders, "absent"),
     j \in HistInput(0..JitterSteps, 0) :
    LET me == req[r]
        next == after_attempt(o, me.attempt)
        h == hist.of[r]
    IN /\ me.pc = "attempt"
       /\ hist' = IF ~hist.on THEN hist
                  ELSE [hist EXCEPT !.of[r] =
                    [h EXCEPT
                       !.outcomes = Append(@, o),
                       !.retry_after = IF o = "429" THEN header ELSE "none",
                       !.gap = 0,
                       !.inner = IF o = "429"
                                   THEN retry_after_wait(header, me.attempt, j) ELSE 0,
                       !.exc = IF o # "429" /\ next = "raise" THEN raise_message(o) ELSE @]]
       /\ req' = [req EXCEPT ![r] =
                  [@ EXCEPT
                     !.image_size = degrade(me.attempt, me.image_size),
                     !.calls = @ + 1,
                     !.first_terminal =
                        IF me.calls = 0 THEN o \in {"400", "401", "403"} ELSE @,
                     !.gave_up_early =
                        @ \/ ( /\ o \in TransientOutcomes \ {"429"}
                               /\ me.attempt < max_retries
                               /\ next # "sleep" ),
                     !.generated = IF o = "429" \/ next = "sleep" THEN "none"
                                   ELSE IF next = "ok" THEN "ok" ELSE "failed",
                     !.pc = IF o = "429" THEN "rl_wait"
                            ELSE IF next = "sleep" THEN "backoff"
                            ELSE after_generation(next, me.user_is_admin, me.log_cost_rub)]]
       /\ api_sem' = IF o = "429" THEN api_sem ELSE api_sem_after(next, api_sem)
       /\ UNCHANGED <<users, users0, delayVars, ledgerVars, promoVars, settings, fsm_data, web, rl_sem, photoshoot_logs>>

\* services/photoshoot.py:275: async with _get_rate_limit_semaphore(), and
\* the sleep of Retry-After seconds begins
GenRateLimitSleep(r) ==
  /\ req[r].pc = "rl_wait"
  /\ rl_sem > 0
  /\ rl_sem' = rl_sem - 1
  /\ req' = [req EXCEPT ![r] = [@ EXCEPT !.pc = "rl_sleep", !.slept = TRUE]]
  /\ UNCHANGED <<users, users0, delayVars, ledgerVars, promoVars, settings, fsm_data, web, hist, api_sem, photoshoot_logs>>

\* services/photoshoot.py:276-278 and 463-489: the sleep ends,
\* _make_api_request raises "Rate limit, ..." and the loop handles it
GenRateLimitWake(r) ==
  LET me == req[r]
      next == after_attempt("429", me.attempt)
  IN /\ me.pc = "rl_sleep"
     /\ rl_sem' = rl_sem + 1
     /\ hist' = IF ~hist.on THEN hist
                ELSE [hist EXCEPT !.of[r] =
                  [@ EXCEPT !.gap = @ + hist.of[r].inner,
                            !.exc = IF next = "raise" THEN raise_message("429") ELSE @]]
     /\ req' = [req EXCEPT ![r] =
                [@ EXCEPT
                   !.gave_up_early = @ \/ (me.attempt < max_retries /\ next # "sleep"),
                   !.generated = IF next = "sleep" THEN "none" ELSE "failed",
                   !.pc = IF next = "sleep" THEN "backoff"
                          ELSE after_generation(next, me.user_is_admin, me.log_cost_rub)]]
     /\ api_sem' = api_sem_after(next, api_sem)
     /\ UNCHANGED <<users, users0, delayVars, ledgerVars, promoVars, settings, fsm_data, web, photoshoot_logs>>

\* services/photoshoot.py:487-489, 499-501: asyncio.sleep(wait_time), then
\* the next pass of the loop
GenBackoff(r) ==
  \E j \in HistInput(0..JitterSteps, 0) :
    LET me == req[r]
        h == hist.of[r]
        wait_time == calculate_retry_delay(me.attempt,
                                           sleep_error_type(h.outcomes[Len(h.outcomes)]), j)
    IN /\ me.pc = "backoff"
       /\ req' = [req EXCEPT ![r] = [@ EXCEPT !.pc = "attempt", !.attempt = @ + 1,
                                          !.slept = TRUE]]
       /\ hist' = IF ~hist.on THEN hist
                  ELSE [hist EXCEPT !.of[r] =
                    [h EXCEPT !.gap = @ + wait_time]]
       /\ UNCHANGED <<users, users0, delayVars, ledgerVars, promoVars, settings, fsm_data, web, api_sem, rl_sem, photoshoot_logs>>

(***************************************************************************)
(* _run_generation after the generation (handlers/photoshoot.py:844-1010). *)
(* The settlement call names a keyword check_only=False that the           *)
(* signature in db/repositories/users.py:162 does not declare.  With that   *)
(* signature the call raises TypeError before the body runs; with a         *)
(* signature that accepts the keyword the body, which never reads it, runs. *)
(* Both are admitted.                                                      *)
(***************************************************************************)
\* what a call of consume_photoshoot_credit_or_balance(telegram_id=...,
\* price_rub=..., check_only=...) does
KeywordCall == {"TypeError", "body"}

LogRow(status, cost_rub) == [status |-> status, cost_rub |-> cost_rub, cost_credits |-> 0]

\* a settlement that hands the result out whether or not the charge went
\* through (a plausible slip)
after_charge_deliver(branch) == "log_success"

\* lines 852-872: a refused charge ends the request
after_charge(branch) == IF branch = "refuse" THEN "refused" ELSE "log_success"

\* lines 845-850 with users.py:163-170: the settlement call up to its
\* SELECT, or its TypeError, which the except branch catches
ChargeSelect(r) ==
  \E call \in KeywordCall :
    /\ req[r].pc = "charge"
    /\ req' = [req EXCEPT ![r] =
                 IF call = "body"
                   THEN [@ EXCEPT !.pc = "charge_selected",
                                  !.row = consume_select(users, req[r].telegram_id)]
                   ELSE [@ EXCEPT !.pc = "except"]]
    /\ UNCHANGED <<users, users0, delayVars, ledgerVars, promoVars, settings, fsm_data, web, hist, api_sem, rl_sem, photoshoot_logs>>

\* users.py:172-183 and line 852: commit or rollback, and the returned bool
ChargeFinish(r) ==
  LET me == req[r]
      branch == consume_branch(me.row, me.log_cost_rub)
  IN /\ me.pc = "charge_selected"
     /\ users' = consume_write(users, me.telegram_id, me.row, me.log_cost_rub)
     /\ req' = [req EXCEPT ![r] =
                [@ EXCEPT !.pc = after_charge(branch),
                          !.charged = IF branch = "refuse" THEN "refused" ELSE branch]]
     /\ UNCHANGED <<users0, delayVars, ledgerVars, promoVars, settings, fsm_data, web, hist, api_sem, rl_sem, photoshoot_logs>>

\* update_data(is_generating=...) on the FSM data of the user's chat
update_data(data, tid, value) == [data EXCEPT ![tid].is_generating = value]

\* lines 853-872: the charge was refused: admin log, FSM state, the message
\* to the user (which, inside the try, may raise), return
ChargeRefused(r) ==
  \E sent \in BOOLEAN :
    /\ req[r].pc = "refused"
    /\ req' = [req EXCEPT ![r] = [@ EXCEPT !.pc = IF sent THEN "done" ELSE "except"]]
    /\ fsm_data' = update_data(fsm_data, req[r].telegram_id, FALSE)
    /\ UNCHANGED <<users, users0, delayVars, ledgerVars, promoVars, settings, web, hist, api_sem, rl_sem, photoshoot_logs>>

\* lines 875-915: the success record (log_photoshoot may raise before its
\* commit), then usage_count and the admin log, whose errors are swallowed,
\* then the test of update_avatar_after_success, an argument of the request
\* that nothing reads earlier
LogSuccess(r) ==
  \E logged \in BOOLEAN, update_avatar \in BOOLEAN :
    LET me == req[r]
    IN /\ me.pc = "log_success"
       /\ photoshoot_logs' = [photoshoot_logs EXCEPT ![r] =
                       IF logged THEN Append(@, LogRow("success", me.log_cost_rub)) ELSE @]
       /\ req' = [req EXCEPT ![r] =
                  [@ EXCEPT !.update_avatar_after_success = logged /\ update_avatar,
                            !.pc = IF ~logged THEN "except"
                                   ELSE IF update_avatar THEN "avatar"
                                   ELSE "send"]]
       /\ UNCHANGED <<users, users0, delayVars, ledgerVars, promoVars, settings, fsm_data, web, hist, api_sem, rl_sem>>

\* lines 915-920: set_user_avatar, which may raise
SetAvatar(r) ==
  \E saved \in BOOLEAN :
    /\ req[r].pc = "avatar"
    /\ req' = [req EXCEPT ![r] = [@ EXCEPT !.pc = IF saved THEN "send" ELSE "except"]]
    /\ UNCHANGED <<users, users0, delayVars, ledgerVars, promoVars, settings, fsm_data, web, hist, api_sem, rl_sem, photoshoot_logs>>

\* line 931: error_message=str(e).  The exceptions raised outside
\* generate_photoshoot_image (the download, the settlement call, the success
\* record, the avatar, a send) carry a text of their own.
except_message(me, exc) ==
  IF me.generated = "failed" /\ exc # <<>> THEN exc
  ELSE <<"text", "of", "another", "exception">>

\* lines 922-958: the except branch: the failed record (log_photoshoot may
\* raise), admin log, FSM state, the message to the user (may raise), return
Except(r) ==
  \E logged \in BOOLEAN, sent \in BOOLEAN :
    LET me == req[r]
    IN /\ me.pc = "except"
       /\ photoshoot_logs' = [photoshoot_logs EXCEPT ![r] =
                       IF logged THEN Append(@, LogRow("failed", me.log_cost_rub)) ELSE @]
       /\ req' = [req EXCEPT ![r] = [@ EXCEPT !.pc = "done",
                                          !.raised = ~logged \/ ~sent]]
       /\ hist' = IF ~(hist.on /\ logged) THEN hist
                  ELSE [hist EXCEPT !.of[r].error_message = except_message(me, hist.of[r].exc)]
       /\ fsm_data' = IF logged THEN update_data(fsm_data, me.telegram_id, FALSE)
                      ELSE fsm_data
       /\ UNCHANGED <<users, users0, delayVars, ledgerVars, promoVars, settings, web, api_sem, rl_sem>>

\* lines 975-1010: the result is sent: send_photo (a TelegramBadRequest is
\* caught, any other exception leaves the function), then send_document
\* (which may raise), FSM data, the closing message
SendResult(r) ==
  \E photo \in {"sent", "bad_request", "raises"}, doc \in {"sent", "raises"} :
    /\ req[r].pc = "send"
    /\ req' = [req EXCEPT ![r] =
               [@ EXCEPT !.pc = "done",
                         !.photo_sent = (photo = "sent"),
                         !.doc_sent = (photo # "raises" /\ doc = "sent"),
                         !.raised = (photo = "raises" \/ doc = "raises")]]
    /\ fsm_data' = IF photo # "raises" /\ doc = "sent"
                     THEN update_data(fsm_data, req[r].telegram_id, FALSE)
                     ELSE fsm_data
    /\ UNCHANGED <<users, users0, delayVars, ledgerVars, promoVars, settings, web, hist, api_sem, rl_sem, photoshoot_logs>>

(***************************************************************************)
(* use_avatar and handle_selfie (handlers/photoshoot.py:1045-1191), from    *)
(* the lookup of the admin flag to the call of _run_generation.            *)
(***************************************************************************)
\* a caller that checks every account, admins too (a plausible slip)
needs_precheck_always(user_is_admin) == TRUE

\* lines 1073, 1139: `if not user_is_admin`
needs_precheck(user_is_admin) == ~user_is_admin

\* handle_selfie, lines 1115-1135: the FSM data are read, a request with
\* is_generating set is turned away, otherwise is_generating is stored.  The
\* storage is the Dispatcher's default MemoryStorage (main.py:91), whose
\* coroutines do not suspend, so nothing runs between the read and the store.
HandleSelfie(r) ==
  \E tid \in Ids :
    /\ req[r].pc = "idle"
    /\ IF fsm_data[tid].is_generating
         THEN /\ req' = [req EXCEPT ![r] = [@ EXCEPT !.pc = "h_busy", !.telegram_id = tid]]
              /\ UNCHANGED fsm_data
         ELSE /\ req' = [req EXCEPT ![r] = [@ EXCEPT !.pc = "entered", !.telegram_id = tid]]
              /\ fsm_data' = update_data(fsm_data, tid, TRUE)
    /\ UNCHANGED <<users, users0, delayVars, ledgerVars, promoVars, settings, web, hist, api_sem, rl_sem, photoshoot_logs>>

\* use_avatar, lines 1047-1060: the FSM data are read, a request with
\* is_generating set is turned away, otherwise the avatar is queried from
\* the database, where the handler is suspended
UseAvatar(r) ==
  \E tid \in Ids :
    /\ req[r].pc = "idle"
    /\ req' = [req EXCEPT ![r] =
                 [@ EXCEPT !.telegram_id = tid,
                           !.pc = IF fsm_data[tid].is_generating THEN "h_busy"
                                  ELSE "avatar_lookup"]]
    /\ UNCHANGED <<users, users0, delayVars, ledgerVars, promoVars, settings, fsm_data, web, hist, api_sem, rl_sem, photoshoot_logs>>

\* use_avatar, lines 1060-1069: without an avatar the handler returns;
\* otherwise is_generating is stored
UseAvatarStore(r) ==
  \E has_avatar \in BOOLEAN :
    /\ req[r].pc = "avatar_lookup"
    /\ req' = [req EXCEPT ![r] = [@ EXCEPT !.pc = IF has_avatar THEN "entered"
                                                 ELSE "h_no_avatar"]]
    /\ fsm_data' = IF has_avatar THEN update_data(fsm_data, req[r].telegram_id, TRUE)
                   ELSE fsm_data
    /\ UNCHANGED <<users, users0, delayVars, ledgerVars, promoVars, settings, web, hist, api_sem, rl_sem, photoshoot_logs>>

\* lines 1071-1073, 1137-1139: is_admin(user id); an admin goes on without
\* the check
Handler(r) ==
  \E user_is_admin \in BOOLEAN :
    /\ req[r].pc = "entered"
    /\ req' = [req EXCEPT ![r] =
                 [@ EXCEPT !.user_is_admin = user_is_admin,
                           !.pc = IF needs_precheck(user_is_admin) THEN "precheck" ELSE "run"]]
    /\ UNCHANGED <<users, users0, delayVars, ledgerVars, promoVars, settings, fsm_data, web, hist, api_sem, rl_sem, photoshoot_logs>>

\* lines 1075-1079, 1141-1145 with users.py:163-170: the check call up to
\* its SELECT, or its TypeError, which nothing in the handler catches
PreCheckSelect(r) ==
  \E call \in KeywordCall :
    /\ req[r].pc = "precheck"
    /\ req' = [req EXCEPT ![r] =
                 IF call = "body"
                   THEN [@ EXCEPT !.pc = "precheck_selected",
                                  !.row = consume_select(users, req[r].telegram_id)]
                   ELSE [@ EXCEPT !.pc = "h_raised", !.prechecked = "raised"]]
    /\ UNCHANGED <<users, users0, delayVars, ledgerVars, promoVars, settings, fsm_data, web, hist, api_sem, rl_sem, photoshoot_logs>>

\* users.py:172-183 and lines 1080-1089, 1146-1154: commit or rollback, and
\* `if not can_pay`: the message about the balance, return
PreCheckFinish(r) ==
  LET me == req[r]
      branch == consume_branch(me.row, PHOTOSHOOT_PRICE)
  IN /\ me.pc = "precheck_selected"
     /\ users' = consume_write(users, me.telegram_id, me.row, PHOTOSHOOT_PRICE)
     /\ req' = [req EXCEPT ![r] =
                  [@ EXCEPT !.prechecked = branch,
                            !.pc = IF branch = "refuse" THEN "h_refused" ELSE "run"]]
     /\ fsm_data' = IF branch = "refuse" THEN update_data(fsm_data, me.telegram_id, FALSE)
                    ELSE fsm_data
     /\ UNCHANGED <<users0, delayVars, ledgerVars, promoVars, settings, web, hist, api_sem, rl_sem, photoshoot_logs>>

\* lines 1091-1110, 1156-1191: the avatar is looked up and, in handle_selfie
\* for a first photo, stored (set_user_avatar may raise); then
\* _run_generation is called
HandlerRun(r) ==
  \E avatar_ok \in BOOLEAN, downloaded \in BOOLEAN :
    LET me == req[r]
    IN /\ me.pc = "run"
       /\ req' = [req EXCEPT ![r] =
                    IF avatar_ok
                      THEN run_generation_entry(@, me.telegram_id, me.user_is_admin, downloaded)
                      ELSE [@ EXCEPT !.pc = "h_raised"]]
       /\ UNCHANGED <<users, users0, delayVars, ledgerVars, promoVars, settings, fsm_data, web, hist, api_sem, rl_sem, photoshoot_logs>>

(***************************************************************************)
(* generate_photoshoot_from_upload (api/main.py:432-509)                   *)
(***************************************************************************)
\* line 459: `if not user.is_admin` - the spend is made before the generation
web_charges_first(is_admin) == ~is_admin

\* services/web_photoshoot.py:38-164: one provider call, no retry; anything
\* but a 200 with an image raises
web_generated(o) == IF o = "200" THEN "ok" ELSE "failed"

\* lines 448-463 with users.py:163-170: the style and the upload are
\* checked, then for a non-admin the spend is called, up to its SELECT
WebCall(w) ==
  \E tid \in Ids, is_admin \in BOOLEAN, input \in {"ok", "no_style", "empty_photo"} :
    /\ web[w].pc = "idle"
    /\ web' = [web EXCEPT ![w] =
                 IF input # "ok"
                   THEN [@ EXCEPT !.pc = "done", !.telegram_id = tid, !.is_admin = is_admin,
                                  !.status = IF input = "no_style" THEN 404 ELSE 400]
                 ELSE IF web_charges_first(is_admin)
                   THEN [@ EXCEPT !.pc = "charge_selected", !.telegram_id = tid,
                                  !.is_admin = is_admin,
                                  !.row = consume_select(users, tid)]
                   ELSE [@ EXCEPT !.pc = "generate", !.telegram_id = tid,
                                  !.is_admin = is_admin]]
    /\ UNCHANGED <<users, users0, delayVars, ledgerVars, promoVars, settings, api_sem,
                   rl_sem, req, photoshoot_logs, fsm_data, hist>>

\* users.py:172-183 and lines 464-473: commit or rollback; a refused spend
\* answers 402, a granted one sets cost_rub
WebChargeFinish(w) ==
  LET me == web[w]
      branch == consume_branch(me.row, PHOTOSHOOT_PRICE)
  IN /\ me.pc = "charge_selected"
     /\ users' = consume_write(users, me.telegram_id, me.row, PHOTOSHOOT_PRICE)
     /\ web' = [web EXCEPT ![w] =
                  IF branch = "refuse"
                    THEN [@ EXCEPT !.pc = "done", !.charged = "refused", !.status = 402]
                    ELSE [@ EXCEPT !.pc = "generate", !.charged = branch,
                                   !.cost_rub = PHOTOSHOOT_PRICE]]
     /\ UNCHANGED <<users0, delayVars, ledgerVars, promoVars, settings, api_sem,
                    rl_sem, req, photoshoot_logs, fsm_data, hist>>

\* lines 475-489: the generation and the success record (log_photoshoot may
\* raise), both inside the try
WebGenerate(w) ==
  \E o \in ProviderOutcomes, logged \in BOOLEAN :
    LET me == web[w]
        ok == web_generated(o) = "ok" /\ logged
    IN /\ me.pc = "generate"
       /\ web' = [web EXCEPT ![w] =
                    [@ EXCEPT !.generated = web_generated(o),
                              !.logs = IF ok THEN Append(@, LogRow("success", me.cost_rub))
                                       ELSE @,
                              !.status = IF ok THEN 200 ELSE @,
                              !.pc = IF ok THEN "done" ELSE "except"]]
       /\ UNCHANGED <<users, users0, delayVars, ledgerVars, promoVars, settings, api_sem,
                      rl_sem, req, photoshoot_logs, fsm_data, hist>>

\* lines 491-504: the except branch: the failed record (log_photoshoot may
\* raise), then HTTP 500; nothing is given back to the account
WebExcept(w) ==
  \E logged \in BOOLEAN :
    LET me == web[w]
    IN /\ me.pc = "except"
       /\ web' = [web EXCEPT ![w] =
                    [@ EXCEPT !.logs = IF logged THEN Append(@, LogRow("failed", me.cost_rub))
                                       ELSE @,
                              !.status = 500,
                              !.pc = "done"]]
       /\ UNCHANGED <<users, users0, delayVars, ledgerVars, promoVars, settings, api_sem,
                      rl_sem, req, photoshoot_logs, fsm_data, hist>>

(***************************************************************************)
(* Specifications                                                          *)
(***************************************************************************)
EmptyTable == [x \in {} |-> UserRow(0, 0)]

\* _calculate_retry_delay applied to every attempt number and error type
InitDelay ==
  /\ users = EmptyTable /\ users0 = users
  /\ l_serial = TRUE
  /\ DelayInit /\ LedgerInit /\ PromoInit /\ BotInit
NextDelay == CalculateRetryDelay
SpecDelay == InitDelay /\ [][NextDelay]_vars

\* callers of the spend primitive running concurrently
InitLedger ==
  /\ users \in StartTables /\ users0 = users
  /\ l_serial = FALSE
  /\ DelayInit /\ LedgerInit /\ PromoInit /\ BotInit
NextLedger ==
  \E p \in Procs : ConsumeSelect(p) \/ ConsumeFinish(p)
SpecLedger == InitLedger /\ [][NextLedger]_vars

\* the same callers, each call issued after the previous one returned
InitLedgerSeq ==
  /\ users \in StartTables /\ users0 = users
  /\ l_serial = TRUE
  /\ DelayInit /\ LedgerInit /\ PromoInit /\ BotInit
SpecLedgerSeq == InitLedgerSeq /\ [][NextLedger]_vars

\* callers of the promo redemption running concurrently
PromoStartTables == UNION { [S -> {UserRow(0, 0)}] : S \in SUBSET Ids }
InitPromo ==
  /\ users \in PromoStartTables /\ users0 = users
  /\ l_serial = TRUE
  /\ DelayInit /\ LedgerInit /\ PromoInit /\ BotInit
NextPromo ==
  \E q \in Redeemers :
    \/ RedeemCall(q)
    \/ RedeemSelectPromo(q)
    \/ RedeemSelectUser(q)
    \/ RedeemInsertUser(q)
    \/ RedeemInsertRedemption(q)
    \/ RedeemCommit(q)
SpecPromo == InitPromo /\ [][NextPromo]_vars

\* requests of the bot running concurrently.  An account may enter
\* _run_generation unable to pay: the callers' check is made earlier and the
\* account can be spent from in between.
BotStartRows == {UserRow(0, 0), UserRow(0, 1), UserRow(PHOTOSHOOT_PRICE, 0)}
InitBot ==
  /\ users \in [Ids -> BotStartRows] /\ users0 = users
  /\ l_serial = TRUE
  /\ DelayInit /\ LedgerInit /\ PromoInit /\ BotInit
NextBot ==
  \E r \in Reqs :
    \/ RunGeneration(r)
    \/ GenAcquire(r)
    \/ GenAttempt(r)
    \/ GenRateLimitSleep(r)
    \/ GenRateLimitWake(r)
    \/ GenBackoff(r)
    \/ ChargeSelect(r)
    \/ ChargeFinish(r)
    \/ ChargeRefused(r)
    \/ LogSuccess(r)
    \/ SetAvatar(r)
    \/ Except(r)
    \/ SendResult(r)
SpecBot == InitBot /\ [][NextBot]_vars

\* calls of generate_photoshoot_image running concurrently, observed until
\* each returns or raises, under every image size setting and with fewer
\* semaphore slots than callers as well as enough of them
ImageSizes == {"4K", "2K", "1K"}
OrchSettings ==
  [APIYI_IMAGE_SIZE : ImageSizes, APIYI_MAX_CONCURRENT : 1..MaxConcurrentSetting]
InitOrch ==
  /\ users = EmptyTable /\ users0 = users
  /\ l_serial = TRUE
  /\ DelayInit /\ LedgerInit /\ PromoInit
  /\ \E cfg \in OrchSettings : BotInitWith(cfg)
NextOrch ==
  \E r \in Reqs :
    \/ RunGeneration(r)
    \/ GenAcquire(r)
    \/ GenAttempt(r)
    \/ GenRateLimitSleep(r)
    \/ GenRateLimitWake(r)
    \/ GenBackoff(r)
SpecOrch == InitOrch /\ [][NextOrch]_vars

\* the same, with what the event loop guarantees: a provider call ends (the
\* session has a total timeout), a sleep ends, and a free semaphore slot is
\* handed to a waiter
FairOrch ==
  \A r \in Reqs :
    /\ WF_vars(GenAcquire(r))
    /\ WF_vars(GenAttempt(r))
    /\ WF_vars(GenRateLimitSleep(r))
    /\ WF_vars(GenRateLimitWake(r))
    /\ WF_vars(GenBackoff(r))
SpecOrchFair == InitOrch /\ [][NextOrch]_vars /\ FairOrch

\* requests entering through the handlers
InitHandlers ==
  /\ users \in [Ids -> BotStartRows] /\ users0 = users
  /\ l_serial = TRUE
  /\ DelayInit /\ LedgerInit /\ PromoInit /\ BotInit
NextHandlers ==
  \E r \in Reqs :
    \/ HandleSelfie(r)
    \/ UseAvatar(r)
    \/ UseAvatarStore(r)
    \/ Handler(r)
    \/ PreCheckSelect(r)
    \/ PreCheckFinish(r)
    \/ HandlerRun(r)
    \/ GenAcquire(r)
    \/ GenAttempt(r)
    \/ GenRateLimitSleep(r)
    \/ GenRateLimitWake(r)
    \/ GenBackoff(r)
    \/ ChargeSelect(r)
    \/ ChargeFinish(r)
    \/ ChargeRefused(r)
    \/ LogSuccess(r)
    \/ SetAvatar(r)
    \/ Except(r)
    \/ SendResult(r)
SpecHandlers == InitHandlers /\ [][NextHandlers]_vars

\* one request through _run_generation with its provider calls, waits and
\* error text recorded
InitTrace ==
  /\ users \in [Ids -> {UserRow(0, 1), UserRow(0, 0)}]
  /\ users0 = users
  /\ l_serial = FALSE
  /\ DelayInit /\ LedgerInit /\ PromoInit /\ BotInitTraced(DefaultSettings, TRUE)
NextTrace ==
  \/ RunGeneration("r1")
  \/ GenAcquire("r1")
  \/ GenAttempt("r1")
  \/ GenRateLimitSleep("r1")
  \/ GenRateLimitWake("r1")
  \/ GenBackoff("r1")
  \/ ChargeSelect("r1")
  \/ ChargeFinish("r1")
  \/ ChargeRefused("r1")
  \/ LogSuccess("r1")
  \/ SetAvatar("r1")
  \/ Except("r1")
  \/ SendResult("r1")
SpecTrace == InitTrace /\ [][NextTrace]_vars

\* the entry points of a generation: a bot handler with the pipeline behind
\* it, and the web endpoint
InitEntries ==
  /\ users \in [Ids -> BotStartRows]
  /\ users0 = users
  /\ l_serial = FALSE
  /\ DelayInit /\ LedgerInit /\ PromoInit /\ BotInit
NextEntries ==
  \/ HandleSelfie("r1")
  \/ UseAvatar("r1")
  \/ UseAvatarStore("r1")
  \/ Handler("r1")
  \/ PreCheckSelect("r1")
  \/ PreCheckFinish("r1")
  \/ HandlerRun("r1")
  \/ GenAcquire("r1")
  \/ GenAttempt("r1")
  \/ GenRateLimitSleep("r1")
  \/ GenRateLimitWake("r1")
  \/ GenBackoff("r1")
  \/ ChargeSelect("r1")
  \/ ChargeFinish("r1")
  \/ ChargeRefused("r1")
  \/ LogSuccess("r1")
  \/ SetAvatar("r1")
  \/ Except("r1")
  \/ SendResult("r1")
  \/ \E w \in WebReqs : WebCall(w)
  \/ \E w \in WebReqs : WebChargeFinish(w)
  \/ \E w \in WebReqs : WebGenerate(w)
  \/ \E w \in WebReqs : WebExcept(w)
SpecEntries == InitEntries /\ [][NextEntries]_vars

\* promo codes typed to the bot
InitApply ==
  /\ users \in PromoStartTables
  /\ users0 = users
  /\ l_serial = FALSE
  /\ DelayInit /\ LedgerInit /\ PromoInit /\ BotInit
NextApply ==
  \/ \E h \in Appliers : ApplyMessage(h)
  \/ \E h \in Appliers : ApplyBurn(h)
  \/ \E h \in Appliers : ApplyCreditSelect(h)
  \/ \E h \in Appliers : ApplyCreditFinish(h)
SpecApply == InitApply /\ [][NextApply]_vars

\* the ledger under spends, adjustments and a promo redemption that overlap
AccountStartRows == {UserRow(0, 0), UserRow(0, 1), UserRow(PHOTOSHOOT_PRICE, 0)}
InitAccounts ==
  /\ users \in [{1} -> AccountStartRows] \cup {EmptyTable}
  /\ users0 = users
  /\ l_serial = FALSE
  /\ DelayInit /\ LedgerInit /\ PromoInit /\ BotInit
NextAccounts ==
  \/ ConsumeSelect("p1")
  \/ ConsumeFinish("p1")
  \/ \E a \in Adjusters : ChangeSelect(a)
  \/ \E a \in Adjusters : ChangeFinish(a)
  \/ RedeemCall("q1")
  \/ RedeemSelectPromo("q1")
  \/ RedeemSelectUser("q1")
  \/ RedeemInsertUser("q1")
  \/ RedeemInsertRedemption("q1")
  \/ RedeemCommit("q1")
SpecAccounts == InitAccounts /\ [][NextAccounts]_vars

(***************************************************************************)
(* Properties                                                              *)
(***************************************************************************)
\* the row of an account, an absent account counting as 0 balance, 0 credits
RowOf(t, tid) == IF Exists(t, tid) THEN t[tid] ELSE UserRow(0, 0)

\* the account can pay for exactly one generation
AffordsExactlyOne(row) ==
  \/ row.photoshoot_credits = 1 /\ row.balance < PHOTOSHOOT_PRICE
  \/ row.photoshoot_credits = 0 /\ row.balance = PHOTOSHOOT_PRICE

\* the row after one spend
SpentOnce(row) ==
  IF row.photoshoot_credits > 0
    THEN [row EXCEPT !.photoshoot_credits = @ - 1]
    ELSE [row EXCEPT !.balance = @ - PHOTOSHOOT_PRICE]

\* C3: two concurrent calls of consume_photoshoot_credit_or_balance on an
\* account that can afford exactly one spend return one True and one False,
\* and the account is decremented exactly once.
C3_ExactlyOneSpendSucceeds ==
  \A p \in Procs, o \in Procs :
    ( /\ p # o
      /\ l_pc[p] = "returned" /\ l_pc[o] = "returned"
      /\ l_tid[p] = l_tid[o]
      /\ Exists(users0, l_tid[p])
      /\ AffordsExactlyOne(users0[l_tid[p]]) )
    => /\ l_result[p] # l_result[o]
       /\ users[l_tid[p]] = SpentOnce(users0[l_tid[p]])

\* the spend as the specification states it: the result and the table after
TrySpendRef(t, tid, price) ==
  LET row == RowOf(t, tid) IN
    IF row.photoshoot_credits > 0
      THEN [ok |-> TRUE, table |-> [t EXCEPT ![tid].photoshoot_credits = @ - 1]]
      ELSE IF row.balance >= price
        THEN [ok |-> TRUE, table |-> [t EXCEPT ![tid].balance = @ - price]]
        ELSE [ok |-> FALSE, table |-> t]

\* C5: a call of consume_photoshoot_credit_or_balance returns what the
\* reference spend returns on the table it was issued on, and leaves the
\* table the reference spend leaves (credits first, then balance, else
\* False with credits, balance and the set of accounts unchanged).
C5_ConsumeIsReferenceSpend ==
  \A p \in Procs :
    l_pc[p] = "returned" =>
      /\ l_result[p] = TrySpendRef(l_before[p], l_tid[p], PHOTOSHOOT_PRICE).ok
      /\ l_after[p] = TrySpendRef(l_before[p], l_tid[p], PHOTOSHOOT_PRICE).table

\* a call paid from the balance, having no credit, and another call was refused
C5_Witness ==
  \E p \in Procs, o \in Procs :
    /\ l_pc[p] = "returned" /\ l_result[p] = TRUE
    /\ RowOf(l_before[p], l_tid[p]).photoshoot_credits = 0
    /\ l_after[p][l_tid[p]].balance = l_before[p][l_tid[p]].balance - PHOTOSHOOT_PRICE
    /\ l_pc[o] = "returned" /\ l_result[o] = FALSE

\* two finished redemptions of one usable code by one account
SamePairRedeemed(q, o) ==
  /\ q # o
  /\ r_pc[q] = "returned" /\ r_pc[o] = "returned"
  /\ r_tid[q] = r_tid[o] /\ r_tid[q] > 0
  /\ normalize_code(r_code[q]) = normalize_code(r_code[o])
  /\ promo_usable(promos, normalize_code(r_code[q]))

\* C4: two redemptions of the same valid code by the same account, one after
\* the other or concurrently, return "ok" once and "already_used" once, and
\* the balance grows by the value of the code exactly once.
C4_PromoRedeemedOnce ==
  \A q \in Redeemers, o \in Redeemers :
    SamePairRedeemed(q, o) =>
      LET code == normalize_code(r_code[q])
          tid == r_tid[q]
      IN /\ {r_result[q], r_result[o]} = {"ok", "already_used"}
         /\ redemptions[<<code, tid>>] = 1
         /\ Exists(users, tid)
         /\ users[tid].balance =
              RowOf(users0, tid).balance + PHOTOSHOOT_PRICE * promos[code].generations

\* the two redemptions overlapped in time
C4_Witness ==
  \E q \in Redeemers, o \in Redeemers :
    /\ SamePairRedeemed(q, o)
    /\ r_overlap[o]
    /\ r_result[q] = "ok" /\ r_result[o] = "already_used"

\* C10: the delay _calculate_retry_delay returns is non-negative and, jitter
\* included, at most RETRY_MAX_DELAY_SECONDS.
C10_DelayAtMostMax ==
  d_pc = "returned" =>
    /\ d_delay >= 0
    /\ d_delay <= RETRY_MAX_DELAY_SECONDS * 1000

\* C10 as amended: the delay is non-negative, its part before the jitter is
\* at most RETRY_MAX_DELAY_SECONDS, and with the jitter it is at most 1.25
\* times RETRY_MAX_DELAY_SECONDS.
C10_DelayAtMostMaxPlusJitter ==
  d_pc = "returned" =>
    /\ d_delay >= 0
    /\ d_base <= RETRY_MAX_DELAY_SECONDS * 1000
    /\ d_delay >= d_base
    /\ 4 * d_delay <= 5 * RETRY_MAX_DELAY_SECONDS * 1000

\* a delay above the maximum, on an attempt the retry loop can pass
C10_Witness ==
  /\ d_pc = "returned"
  /\ d_attempt < MAX_GENERATION_RETRIES
  /\ d_delay > RETRY_MAX_DELAY_SECONDS * 1000

\* the request ended, its generation having failed / succeeded
GenerationFailed(r) == req[r].pc = "done" /\ req[r].generated = "failed"
Debited(r) == req[r].charged \in {"credit", "balance"}
Delivered(r) == req[r].photo_sent \/ req[r].doc_sent
CanPay(row) == row.photoshoot_credits > 0 \/ row.balance >= PHOTOSHOOT_PRICE

\* C1: a request of the bot whose generation ended in failure (retries
\* exhausted or a terminal provider error) executed no debit, and when no
\* other request debited either, every account's credits and balance are
\* what they were before the request.
C1_NoDebitOnGenerationFailure ==
  \A r \in Reqs :
    GenerationFailed(r) =>
      /\ ~Debited(r)
      /\ (\A o \in Reqs \ {r} : ~Debited(o)) => users = users0

\* a paying non-admin request ran out of attempts and another one was
\* answered a terminal error, and both ended
C1_Witness ==
  \E r \in Reqs, o \in Reqs :
    /\ GenerationFailed(r) /\ GenerationFailed(o)
    /\ ~req[r].user_is_admin /\ ~req[o].user_is_admin
    /\ CanPay(users0[req[r].telegram_id]) /\ CanPay(users0[req[o].telegram_id])
    /\ req[r].calls = max_retries /\ ~req[r].first_terminal
    /\ req[o].first_terminal

C6_RefusedChargeNotDelivered ==
  \A r \in Reqs :
    (req[r].generated = "ok" /\ req[r].charged = "refused") =>
      /\ ~Delivered(r)
      /\ req[r].pc \in {"refused", "except", "done"}

\* a request generated its image, was refused the charge and ended
C6_Witness ==
  \E r \in Reqs :
    /\ req[r].pc = "done"
    /\ req[r].generated = "ok" /\ req[r].charged = "refused"
    /\ req[r].calls >= 1

C8_ExactlyOneOutcomeRecord ==
  \A r \in Reqs :
    (req[r].pc = "done" /\ req[r].calls >= 1 /\ ~req[r].raised) =>
      Len(photoshoot_logs[r]) = 1

\* C9: when the first provider call of a request is answered 400, 401 or
\* 403, that call stays the only one, the request never sleeps, and
\* generate_photoshoot_image has raised.
C9_TerminalErrorShortCircuits ==
  \A r \in Reqs :
    req[r].first_terminal =>
      /\ req[r].calls = 1
      /\ ~req[r].slept
      /\ req[r].generated = "failed"
      /\ req[r].pc \in {"except", "done"}

\* a request was answered a terminal error on attempt 1 and ended
C9_Witness ==
  \E r \in Reqs :
    /\ req[r].first_terminal
    /\ req[r].attempt = 1
    /\ req[r].pc = "done"

\* what the settlement of the request took from the account
DeductedRub(r) == IF req[r].charged = "balance" THEN req[r].log_cost_rub ELSE 0
DeductedCredits(r) == IF req[r].charged = "credit" THEN 1 ELSE 0

C12_FailedRecordsCostNothing ==
  \A r \in Reqs :
    \A i \in 1..Len(photoshoot_logs[r]) :
      photoshoot_logs[r][i].status = "failed" =>
        /\ photoshoot_logs[r][i].cost_rub = 0
        /\ photoshoot_logs[r][i].cost_credits = 0

\* C15: after a redemption returned "ok" the promo-code row is inactive or
\* holds fewer generations than the redemption granted.
C15_RedeemedPromoIsSpent ==
  \A q \in Redeemers :
    (r_pc[q] = "returned" /\ r_result[q] = "ok") =>
      LET code == normalize_code(r_code[q]) IN
        \/ ~promos[code].is_active
        \/ promos[code].generations < r_grant[q]

\* C16: when the insert of the redemption row meets a row of the same code
\* and account, the call returns "already_used" in that step, leaving the
\* accounts and the redemption rows as they were and dropping the user row
\* it had flushed.
C16_UniqueViolationIsAlreadyUsed ==
  [][ \A q \in Redeemers :
        ( /\ r_pc[q] = "user_ready"
          /\ r_pc'[q] # "user_ready"
          /\ redemptions[<<normalize_code(r_code[q]), r_tid[q]>>] > 0 )
        => /\ r_pc'[q] = "returned"
           /\ r_result'[q] = "already_used"
           /\ users' = users
           /\ redemptions' = redemptions
           /\ ~r_newuser'[q] ]_vars

\* an account redeemed a code and, after that call had returned, redeemed
\* it again and was told "already_used"
C16_Witness ==
  \E q \in Redeemers, o \in Redeemers :
    /\ SamePairRedeemed(q, o)
    /\ ~r_overlap[q] /\ ~r_overlap[o]
    /\ r_result[o] = "ok" /\ r_result[q] = "already_used"
    /\ redemptions[<<normalize_code(r_code[q]), r_tid[q]>>] = 1

\* the request is inside the retry sequence: it holds a slot of the API
\* semaphore
Inside(r) == req[r].pc \in {"attempt", "rl_wait", "rl_sleep", "backoff"}
NumInside == Cardinality({r \in Reqs : Inside(r)})

\* C17: the number of requests inside the retry sequence never exceeds
\* settings.APIYI_MAX_CONCURRENT, and a request that has not got its slot
\* has made no provider call.
C17_AtMostLimitInside ==
  /\ NumInside <= settings.APIYI_MAX_CONCURRENT
  /\ api_sem >= 0
  /\ \A r \in Reqs : req[r].pc = "acquire" => req[r].calls = 0

\* as many requests as there are slots are inside and another one waits
C17_Witness ==
  \E r \in Reqs, o \in Reqs :
    /\ Inside(r) /\ req[r].calls >= 1
    /\ req[o].pc = "acquire"
    /\ NumInside = settings.APIYI_MAX_CONCURRENT
    /\ api_sem = 0

\* C18: the free slots and the requests inside the retry sequence always
\* add up to the capacity (every exit gives the slot back, so with no
\* request inside all slots are free), and a request waiting for a slot
\* eventually is inside.
C18_SlotAlwaysReleased ==
  /\ [](api_sem + NumInside = settings.APIYI_MAX_CONCURRENT)
  /\ \A r \in Reqs : (req[r].pc = "acquire") ~> Inside(r)

\* with one slot, one request left the sequence by an exception and the
\* other by success, and the slot is free
C18_Witness ==
  \E r \in Reqs, o \in Reqs :
    /\ settings.APIYI_MAX_CONCURRENT = 1
    /\ req[r].generated = "failed" /\ req[r].calls >= 1
    /\ req[o].generated = "ok"
    /\ api_sem = 1

\* C19: a request makes at most max_retries provider calls; no transient
\* error ends the loop while attempts remain; no attempt or sleep follows
\* the call that reached the ceiling or the call that succeeded; and a
\* request that entered the loop eventually returns or raises.
C19_BoundedRetriesTerminate ==
  /\ [](\A r \in Reqs :
          /\ req[r].calls <= max_retries
          /\ ~req[r].gave_up_early
          /\ req[r].pc \in {"attempt", "backoff"} => req[r].calls < max_retries
          /\ req[r].generated # "none" => ~Inside(r))
  /\ \A r \in Reqs : (req[r].pc = "attempt") ~> (req[r].generated # "none")

\* one request succeeded on its last attempt, after sleeping, and another
\* failed having used all its attempts
C19_Witness ==
  \E r \in Reqs, o \in Reqs :
    /\ req[r].generated = "ok" /\ req[r].calls = max_retries /\ req[r].slept
    /\ req[o].generated = "failed" /\ req[o].calls = max_retries
    /\ ~req[o].first_terminal

Rank(size) == CASE size = "1K" -> 1 [] size = "2K" -> 2 [] size = "4K" -> 3

\* C20: the k-th provider call of a request is made with the configured
\* size lowered by k - 1 tiers, not below 1K; a request that has made no
\* call holds the configured size.
C20_SizeDropsOneTierPerAttempt ==
  \A r \in Reqs :
    /\ (req[r].pc # "idle" /\ req[r].calls = 0) =>
          req[r].image_size = settings.APIYI_IMAGE_SIZE
    /\ req[r].calls >= 1 =>
          LET lowered == Rank(settings.APIYI_IMAGE_SIZE) - (req[r].calls - 1)
          IN Rank(req[r].image_size) = IF lowered < 1 THEN 1 ELSE lowered

\* with 4K configured, one request has come down to 1K on its third call
\* and another makes its first call with 4K
C20_Witness ==
  \E r \in Reqs, o \in Reqs :
    /\ settings.APIYI_IMAGE_SIZE = "4K"
    /\ req[r].calls = 3 /\ req[r].image_size = "1K"
    /\ req[o].calls = 1 /\ req[o].image_size = "4K"

\* the callers' check of the request took something from the account
PreCheckDebited(r) == req[r].prechecked \in {"credit", "balance"}
\* no request other than r has written to the table users
OnlyWriter(r) == \A o \in Reqs \ {r} : ~Debited(o) /\ ~PreCheckDebited(o)

\* C13: for an administrative account the callers' check is not made and
\* the request is never turned away for its balance; no settlement is made;
\* every success record of the request has cost 0; and when the request
\* ends with its generation succeeded, no other request having written,
\* every account's credits and balance are what they were.
C13_AdminBypassesLedger ==
  \A r \in Reqs :
    req[r].user_is_admin =>
      /\ req[r].prechecked = "none"
      /\ req[r].charged = "none"
      /\ req[r].pc \notin {"precheck", "precheck_selected", "h_refused",
                          "charge", "charge_selected", "refused"}
      /\ \A i \in 1..Len(photoshoot_logs[r]) :
           photoshoot_logs[r][i].status = "success" =>
             /\ photoshoot_logs[r][i].cost_rub = 0
             /\ photoshoot_logs[r][i].cost_credits = 0
      /\ (req[r].pc = "done" /\ req[r].generated = "ok" /\ OnlyWriter(r)) =>
           users = users0

\* an admin whose account cannot pay got the image, with a success record
C13_Witness ==
  \E r \in Reqs :
    /\ req[r].user_is_admin
    /\ ~CanPay(users0[req[r].telegram_id])
    /\ req[r].pc = "done" /\ req[r].generated = "ok" /\ Delivered(r)
    /\ Len(photoshoot_logs[r]) = 1
    /\ photoshoot_logs[r][1].status = "success"

\* C14: the callers' check, once made, has returned a bool, which says
\* whether the account could pay, and, no other request having started,
\* has left the table users as it was.
C14_PreCheckReadOnly ==
  \A r \in Reqs :
    req[r].prechecked # "none" =>
      /\ req[r].prechecked # "raised"
      /\ ( /\ req[r].pc \in {"run", "h_refused"}
           /\ \A o \in Reqs \ {r} : req[o].pc = "idle" )
         => /\ users = users0
            /\ (req[r].pc = "run") = CanPay(users0[req[r].telegram_id])

(***************************************************************************)
(* The ledger under overlapping spends, adjustments and a redemption       *)
(***************************************************************************)
NonNegative ==
  \A tid \in DOMAIN users :
    users[tid].balance >= 0 /\ users[tid].photoshoot_credits >= 0

\* a commit of change_user_credits / change_user_balance whose loaded value is
\* still the stored one and whose sum with delta is negative stores 0
AdjustmentClamps ==
  \A a \in Adjusters :
    ( /\ c_pc[a] = "selected" /\ c_pc'[a] = "returned"
      /\ change_field(c_fn[a], users[c_tid[a]]) = change_field(c_fn[a], c_row[a])
      /\ change_field(c_fn[a], c_row[a]) + c_delta[a] < 0 )
    => change_field(c_fn[a], users'[c_tid[a]]) = 0

\* a spend whose loaded row cannot pay returns False and leaves the table as
\* it is
UnaffordableSpendRefused ==
  \A p \in Procs :
    (l_pc[p] = "selected" /\ l_pc'[p] = "returned")
    => /\ (~CanPay(l_row[p])) => (l_result'[p] = FALSE)
       /\ (l_result'[p] = FALSE) => (users' = users)

\* C21: under any interleaving of spends, top-ups, administrative
\* adjustments and promo redemptions no account ever has negative credits or
\* a negative balance; an adjustment that would go below zero stores 0, and
\* a spend that cannot be afforded is refused and changes nothing.
C21_NeverNegative ==
  /\ []NonNegative
  /\ [][AdjustmentClamps /\ UnaffordableSpendRefused]_vars

\* an adjustment was clamped, a spend was refused and a redemption was credited
C21_Witness ==
  /\ \E a \in Adjusters :
       /\ c_pc[a] = "returned" /\ c_result[a] = "user"
       /\ change_field(c_fn[a], c_row[a]) + c_delta[a] < 0
       /\ change_field(c_fn[a], users[c_tid[a]]) = 0
  /\ l_pc["p1"] = "returned" /\ l_result["p1"] = FALSE
  /\ r_pc["q1"] = "returned" /\ r_result["q1"] = "ok"

\* what the spend of caller p took from the account
ChargedRub(p) ==
  IF l_result[p] = TRUE /\ consume_branch(l_row[p], PHOTOSHOOT_PRICE) = "balance"
    THEN PHOTOSHOOT_PRICE ELSE 0
ChargedCredits(p) ==
  IF l_result[p] = TRUE /\ consume_branch(l_row[p], PHOTOSHOOT_PRICE) = "credit"
    THEN 1 ELSE 0

\* adjustment a and the spend of p1 are the only calls made, both on tid,
\* both have returned, and the adjustment is nowhere near the clamp
OnlyAdjustAndSpend(a, tid) ==
  /\ c_pc[a] = "returned" /\ c_result[a] = "user" /\ c_tid[a] = tid
  /\ l_pc["p1"] = "returned" /\ l_tid["p1"] = tid
  /\ \A o \in Adjusters \ {a} : c_pc[o] = "idle"
  /\ r_pc["q1"] = "idle"
  /\ Exists(users0, tid)
  /\ change_field(c_fn[a], users0[tid]) + c_delta[a] >= PHOTOSHOOT_PRICE

\* C25: when an adjustment (change_user_balance / change_user_credits) and a
\* spend run on the same account, in any interleaving, the final credits and
\* balance are the initial values plus the adjustment minus what the spend
\* charged.
C25_NoLostUpdate ==
  \A a \in Adjusters, tid \in Ids :
    OnlyAdjustAndSpend(a, tid) =>
      /\ users[tid].balance
           = users0[tid].balance
             + (IF c_fn[a] = "balance" THEN c_delta[a] ELSE 0) - ChargedRub("p1")
      /\ users[tid].photoshoot_credits
           = users0[tid].photoshoot_credits
             + (IF c_fn[a] = "credits" THEN c_delta[a] ELSE 0) - ChargedCredits("p1")

(***************************************************************************)
(* "already_used" and the redemption records                               *)
(***************************************************************************)
\* C27: a call of redeem_promo_code_for_user that returned "already_used"
\* leaves behind a redemption record for its own (promo code, account) pair;
\* a first redemption of a valid code is never reported as already used, also
\* when the account row is missing and two calls for that account with
\* different codes overlap.
C27_AlreadyUsedMeansRecordExists ==
  \A q \in Redeemers :
    (r_pc[q] = "returned" /\ r_result[q] = "already_used")
      => redemptions[<<normalize_code(r_code[q]), r_tid[q]>>] > 0

(***************************************************************************)
(* The waits, retries and error text of one request                        *)
(***************************************************************************)
LastOutcome(r) == hist.of[r].outcomes[Len(hist.of[r].outcomes)]

\* C23: when a call was answered 429 with a Retry-After of 1 second, the
\* time slept between that call and the next one is that 1 second: the hint
\* stands in for the computed delay and is not added to it.
C23_RetryAfterReplacesDelay ==
  \A r \in Reqs :
    ( /\ hist.on
      /\ req[r].pc = "attempt" /\ req[r].attempt > 1
      /\ hist.of[r].retry_after = "1" )
    => hist.of[r].gap = 1 * 1000

\* C24: a provider call answered 200 with a body that is not JSON or holds
\* no image is the last call of its request, and the request has failed.
C24_BadSuccessNeverRetried ==
  \A r \in Reqs :
    \A i \in DOMAIN hist.of[r].outcomes :
      hist.of[r].outcomes[i] \in {"200_bad_json", "200_no_image"}
        => (i = Len(hist.of[r].outcomes) /\ req[r].generated = "failed")

\* the request made every attempt and the last one ended in an error the loop
\* retries
RetriesExhausted(r) ==
  /\ Len(hist.of[r].outcomes) = max_retries
  /\ req[r].generated = "failed"
  /\ LastOutcome(r) \notin {"200", "200_no_image", "unexpected"}
  /\ ~is_fatal(request_error(LastOutcome(r)))

\* the text names the provider error of outcome o, by its message or status
Describes(msg, o) == Contains(msg, request_error(o)) \/ Contains(msg, <<o>>)

\* C26: the failed record of a request whose retries were exhausted carries,
\* in error_message, the description of the provider error of the final
\* attempt.
C26_FailedRecordKeepsLastError ==
  \A r \in Reqs :
    (hist.on /\ RetriesExhausted(r) /\ hist.of[r].error_message # <<>>)
      => Describes(hist.of[r].error_message, LastOutcome(r))

(***************************************************************************)
(* Charge after success, at every entry point                              *)
(***************************************************************************)
WebDebited(w) == web[w].charged \in {"credit", "balance"}

\* C22: at every entry point (the bot handlers and the web endpoint) the
\* account is debited only once the provider has returned a result: a request
\* that has debited the account has a finished, successful generation, and a
\* request whose generation failed has debited nothing.
C22_DebitOnlyAfterSuccess ==
  /\ \A r \in Reqs : (Debited(r) \/ PreCheckDebited(r)) => req[r].generated = "ok"
  /\ \A w \in WebReqs : WebDebited(w) => web[w].generated = "ok"

(***************************************************************************)
(* Promo codes typed to the bot                                            *)
(***************************************************************************)
\* C28: in promo_code_process a code is consumed (generations 0, inactive)
\* exactly when the user's photoshoot_credits were increased by its
\* generations: a handler that has ended has burned a code if and only if it
\* has credited the user.
C28_BurnedIffCredited ==
  \A h \in Appliers :
    pp[h].pc = "done" => (pp[h].burned <=> pp[h].credited)

\* the request is inside generate_photoshoot_image, called by _run_generation
Generating(r) == req[r].pc = "acquire" \/ Inside(r)

\* C29: for one user at most one generation is in progress at any time: no
\* two handlers of the same user are inside the generation together, also
\* when the second event arrived after the first handler had passed its
\* is_generating check and before it stored is_generating=True.
C29_OneGenerationPerUser ==
  \A a \in Reqs : \A b \in Reqs \ {a} :
    req[a].telegram_id = req[b].telegram_id => ~(Generating(a) /\ Generating(b))

\* the handler of the request has returned or raised, or has not begun
Ended(r) ==
  req[r].pc \in {"idle", "h_busy", "h_no_avatar", "h_refused", "h_raised", "done"}

\* C30: every execution of use_avatar or handle_selfie that stored
\* is_generating=True resets it on every path: once no handler of a user is
\* running any more, the user's is_generating is False.
C30_FlagAlwaysReset ==
  \A tid \in Ids :
    (\A r \in Reqs : req[r].telegram_id = tid => Ended(r))
      => ~fsm_data[tid].is_generating

====
